---- MODULE Spec2Model ----
(***************************************************************************)
(* Model of firefish/meshsnappy.py: the SnappyHexMesh settings object, the *)
(* rendering of the snappyHexMeshDict mapping (write_snappy_dict) and the  *)
(* four-step orchestration generate_mesh.                                  *)
(*                                                                         *)
(* Python values are represented as follows: int -> integer, bool ->      *)
(* BOOLEAN, str -> string, list -> sequence, tuple (a, b) -> <<a, b>>,    *)
(* dict -> function over its keys, and a float literal m * 10^e -> the    *)
(* pair <<m, e>> (the floats are only stored and copied, never computed   *)
(* with).                                                                  *)
(***************************************************************************)
EXTENDS Integers, Sequences, FiniteSets, TLC

VARIABLES
    attrs,        \* the instance dictionary of the SnappyHexMesh object (all fields but geom, case)
    geom,         \* self.geom: the attributes of the Geometry read here (filename, name)
    pc,           \* position of the single thread of control
    frame,        \* outermost method of this object being executed ("none" when the caller runs)
    err,          \* exception in flight or delivered to the caller ("none" when there is none)
    calls,        \* collaborator calls made by the current/last top-level call, in order
    files,        \* case directory: file name -> content
    snappy_dict,  \* local of write_snappy_dict: the mapping rendered last
    d,            \* the mapping yielded by case.mutable_data_file inside the with block
    handle,       \* state of the data-file handle of case.mutable_data_file
    opens,        \* number of acquisitions made by the current/last write_snappy_dict
    updates,      \* number of d.update calls made by the current/last write_snappy_dict
    mutated,      \* has a field been assigned since the mapping was rendered last
    nMut,         \* number of field assignments made by the caller
    nCalls        \* number of top-level method calls made by the caller

vars == <<attrs, geom, pc, frame, err, calls, files, snappy_dict, d, handle,
          opens, updates, mutated, nMut, nCalls>>

-----------------------------------------------------------------------------
(* Bounds of the exploration *)

MaxMutations == 1
MaxCalls == 2
MaxLen == 2

-----------------------------------------------------------------------------
(* Values *)

Dec(m, e) == <<m, e>>

EmptyDict == << >>

IntValues == {7}
DecValues == {Dec(7, -1)}
DistValues == {Dec(1, -1), Dec(2, -1)}
LevelValues == {4, 3}
VecValues == {<<Dec(1, -3), Dec(1, -3), Dec(15, -4)>>, <<Dec(0, 0), Dec(0, 0), Dec(1, 0)>>}

SeqsUpTo(S, n) == UNION {[1..k -> S] : k \in 0..n}

Geometries == {[filename |-> "sphere.stl", name |-> "sphere"],
               [filename |-> "body.obj", name |-> "hull"]}

-----------------------------------------------------------------------------
(* SnappyHexMesh.__init__ *)

\* variant: an assignment to a name that is already set is ignored
setattr_if_absent(a, name, v) == a @@ (name :> v)

\* self.<name> = v
setattr(a, name, v) == (name :> v) @@ a

RECURSIVE ApplyAssignments(_, _)
ApplyAssignments(a, s) ==
    IF s = << >> THEN a
    ELSE ApplyAssignments(setattr(a, Head(s)[1], Head(s)[2]), Tail(s))

\* The assignments of __init__ (all but self.geom and self.case), in source order.
InitAssignments(surfaceRefinement) == <<
    <<"surfaceRefinement", surfaceRefinement>>,
    <<"castellate", TRUE>>,
    <<"snap", TRUE>>,
    <<"addLayers", TRUE>>,
    <<"maxLocalCells", 1000000>>,
    <<"maxGlobalCells", 200000>>,
    <<"minRefinementCells", 200>>,
    <<"maxLoadUnbalance", Dec(1, -1)>>,
    <<"nCellsBetweenLevels", 3>>,
    <<"edgeRefinementLevel", 6>>,
    <<"refinementSurfaceMin", 5>>,
    <<"refinementSurfaceMax", 6>>,
    <<"resolveFeatureAngle", 30>>,
    <<"distanceRefinements", <<Dec(1, -1), Dec(2, -1)>> >>,
    <<"distanceLevels", <<4, 3>> >>,
    <<"locationToKeep", <<Dec(1, -3), Dec(1, -3), Dec(15, -4)>> >>,
    <<"allowFreeStandingFaces", TRUE>>,
    <<"nSmoothPatch", 3>>,
    <<"snapTolerance", 2>>,
    <<"nSolveIter", 30>>,
    <<"nRelaxIter", 5>>,
    <<"nFeatureSnapIter", 10>>,
    <<"implicitFeatureSnap", FALSE>>,
    <<"explicitFeatureSnap", TRUE>>,
    <<"multiRegionFeatureSnap", FALSE>>,
    <<"relativeSizes", TRUE>>,
    <<"nSurfaceLayers", 1>>,
    <<"expansionRatio", 1>>,
    <<"finalLayerThickness", Dec(1, -1)>>,
    <<"minThickness", Dec(1, -1)>>,
    <<"nGrow", 0>>,
    <<"featureAngle", 60>>,
    <<"slipFeatureAngle", 30>>,
    <<"nRelaxIter", 3>>,
    <<"nSmoothSurfaceNormals", 1>>,
    <<"nSmoothNormals", 1>>,
    <<"nSmoothThickness", 10>>,
    <<"maxFaceThicknessratio", Dec(5, -1)>>,
    <<"maxThicknessToMedialRatio", Dec(3, -1)>>,
    <<"minMedianAxisAngle", 90>>,
    <<"nBufferCellsNoExtrude", 0>>,
    <<"nLayerIter", 50>>,
    <<"mergeTolerance", Dec(1, -6)>> >>

SnappyHexMesh_init(surfaceRefinement) ==
    ApplyAssignments(EmptyDict, InitAssignments(surfaceRefinement))

-----------------------------------------------------------------------------
(* SnappyHexMesh.write_snappy_dict: the rendered mapping *)

\* variant: '{}.eMesh'.format(self.geom.name), without the enclosing double quotes
eMeshFile_unquoted(name) == name \o ".eMesh"

\* '"{}.eMesh"'.format(self.geom.name)
eMeshFile(name) == "\"" \o name \o ".eMesh\""

\* variant: the lengths are required to be equal
levelsRaises_strict(a) == Len(a["distanceLevels"]) # Len(a["distanceRefinements"])

\* variant: [(r, l) for ...], the pairs not wrapped in a list of their own
levels_flat(a) ==
    [x \in 1..Len(a["distanceRefinements"]) |->
        <<a["distanceRefinements"][x], a["distanceLevels"][x]>>]

\* [[(self.distanceRefinements[x], self.distanceLevels[x])]
\*      for x in range(len(self.distanceRefinements))]
\* Indexing distanceLevels past its end raises IndexError.
levelsRaises(a) == Len(a["distanceLevels"]) < Len(a["distanceRefinements"])

levels(a) ==
    [x \in 1..Len(a["distanceRefinements"]) |->
        << <<a["distanceRefinements"][x], a["distanceLevels"][x]>> >>]

castellatedMeshControls(a, g) ==
    [maxLocalCells |-> a["maxLocalCells"],
     maxGlobalCells |-> a["maxGlobalCells"],
     minRefinementCells |-> a["minRefinementCells"],
     maxLoadUnbalance |-> a["maxLoadUnbalance"],
     nCellsBetweenLevels |-> a["nCellsBetweenLevels"],
     features |-> << [file |-> eMeshFile(g.name), level |-> a["surfaceRefinement"]] >>,
     refinementSurfaces |->
        (g.filename :> [level |-> <<a["refinementSurfaceMin"], a["refinementSurfaceMax"]>>]),
     resolveFeatureAngle |-> a["resolveFeatureAngle"],
     refinementRegions |-> (g.filename :> [mode |-> "distance", levels |-> levels(a)]),
     locationInMesh |-> a["locationToKeep"],
     allowFreeStandingZoneFaces |-> a["allowFreeStandingFaces"]]

\* variant: snapControls keeps the relaxation count of the first constructor assignment
snapControls_own_default(a) ==
    [nSmoothPatch |-> a["nSmoothPatch"],
     tolerance |-> a["snapTolerance"],
     nRelaxIter |-> 5,
     nSolveIter |-> a["nSolveIter"],
     nFeatureSnapIter |-> a["nFeatureSnapIter"],
     implicitFeatureSnap |-> a["implicitFeatureSnap"],
     explicitFeatureSnap |-> a["explicitFeatureSnap"],
     multiRegionFeatureSnap |-> a["multiRegionFeatureSnap"]]

snapControls(a) ==
    [nSmoothPatch |-> a["nSmoothPatch"],
     tolerance |-> a["snapTolerance"],
     nRelaxIter |-> a["nRelaxIter"],
     nSolveIter |-> a["nSolveIter"],
     nFeatureSnapIter |-> a["nFeatureSnapIter"],
     implicitFeatureSnap |-> a["implicitFeatureSnap"],
     explicitFeatureSnap |-> a["explicitFeatureSnap"],
     multiRegionFeatureSnap |-> a["multiRegionFeatureSnap"]]

addLayersControls(a, g) ==
    [relativeSizes |-> a["relativeSizes"],
     layers |-> (g.filename :> [nSurfaceLayers |-> a["nSurfaceLayers"]]),
     expansionRatio |-> a["expansionRatio"],
     finalLayerThickness |-> a["finalLayerThickness"],
     minThickness |-> a["minThickness"],
     nGrow |-> a["nGrow"],
     featureAngle |-> a["featureAngle"],
     slipFeatureAngle |-> a["slipFeatureAngle"],
     nRelaxIter |-> a["nRelaxIter"],
     nSmoothSurfaceNormals |-> a["nSmoothSurfaceNormals"],
     nSmoothNormals |-> a["nSmoothNormals"],
     nSmoothThickness |-> a["nSmoothThickness"],
     maxFaceThicknessRatio |-> a["maxFaceThicknessratio"],
     maxThicknessToMedialRatio |-> a["maxThicknessToMedialRatio"],
     minMedianAxisAngle |-> a["minMedianAxisAngle"],
     nBufferCellsNoExtrude |-> a["nBufferCellsNoExtrude"],
     nLayerIter |-> a["nLayerIter"]]

RenderDict(a, g) ==
    [castellatedMesh |-> a["castellate"],
     snap |-> a["snap"],
     addLayers |-> a["addLayers"],
     geometry |-> (g.filename :> [type |-> "triSurfaceMesh"]),
     castellatedMeshControls |-> castellatedMeshControls(a, g),
     snapControls |-> snapControls(a),
     addLayersControls |-> addLayersControls(a, g),
     meshQualityControls |-> ("#include" :> "\"meshQualityDict\""),
     mergeTolerance |-> a["mergeTolerance"]]

\* d.update(snappy_dict): keys of the argument replace those already present
update(old, new) == new @@ old


-----------------------------------------------------------------------------
(* The case directory and the collaborators' files *)

SNAPPY_HEX_MESH == "system/snappyHexMeshDict"
MESH_QUALITY == "system/meshQualityDict"
SURFACE_FEATURE_EXTRACT == "system/surfaceFeatureExtractDict"
eMeshPath(name) == "constant/triSurface/" \o name \o ".eMesh"

WrittenBy(who) == [writer |-> who]

\* the files a successful step leaves in the case directory
FilesOfStep(step, g) ==
    CASE step = "extract_features" -> {SURFACE_FEATURE_EXTRACT, eMeshPath(g.name)}
      [] step = "write_settings" -> {MESH_QUALITY}
      [] step = "write_snappy_dict" -> {SNAPPY_HEX_MESH}
      [] OTHER -> {}

\* the error a collaborator raises when its step fails
ErrorOf(step) ==
    CASE step = "extract_features" -> "extract_features error"
      [] step = "write_settings" -> "write_settings error"
      [] step = "run_tool" -> "run_tool error"
      [] OTHER -> "none"

WriteErrors == {"IndexError", "mutable_data_file error", "update error"}

-----------------------------------------------------------------------------
(* The caller: field assignment between calls *)

BoolFields == {"castellate", "snap", "addLayers", "allowFreeStandingFaces",
               "implicitFeatureSnap", "explicitFeatureSnap", "multiRegionFeatureSnap",
               "relativeSizes"}
IntFields == {"surfaceRefinement", "maxLocalCells", "maxGlobalCells", "minRefinementCells",
              "nCellsBetweenLevels", "edgeRefinementLevel", "refinementSurfaceMin",
              "refinementSurfaceMax", "resolveFeatureAngle", "nSmoothPatch", "snapTolerance",
              "nSolveIter", "nRelaxIter", "nFeatureSnapIter", "nSurfaceLayers",
              "expansionRatio", "nGrow", "featureAngle", "slipFeatureAngle",
              "nSmoothSurfaceNormals", "nSmoothNormals", "nSmoothThickness",
              "minMedianAxisAngle", "nBufferCellsNoExtrude", "nLayerIter"}
\* "maxFaceThicknessRatio" is the name the documentation and the rendered key use;
\* __init__ creates "maxFaceThicknessratio".
DecFields == {"maxLoadUnbalance", "finalLayerThickness", "minThickness",
              "maxFaceThicknessratio", "maxFaceThicknessRatio",
              "maxThicknessToMedialRatio", "mergeTolerance"}

Fields == BoolFields \cup IntFields \cup DecFields
            \cup {"distanceRefinements", "distanceLevels", "locationToKeep"}

ValuesOf(name) ==
    CASE name \in BoolFields -> BOOLEAN
      [] name \in IntFields -> IntValues
      [] name \in DecFields -> DecValues
      [] name = "distanceRefinements" -> SeqsUpTo(DistValues, MaxLen)
      [] name = "distanceLevels" -> SeqsUpTo(LevelValues, MaxLen)
      [] name = "locationToKeep" -> VecValues

\* shm.<name> = v, by the caller, while no method of the object runs
SetField(name, v) ==
    /\ pc = "idle"
    /\ nMut < MaxMutations
    /\ attrs' = setattr(attrs, name, v)
    /\ mutated' = TRUE
    /\ nMut' = nMut + 1
    /\ UNCHANGED <<geom, pc, frame, err, calls, files, snappy_dict, d, handle,
                   opens, updates, nCalls>>

-----------------------------------------------------------------------------
(* generate_mesh and write_snappy_dict, step by step *)

Raise(e) ==
    /\ err' = e
    /\ pc' = "idle"

\* self.geom.extract_features(): first step of a call of generate_mesh
extract_features ==
    /\ pc = "idle"
    /\ nCalls < MaxCalls
    /\ nCalls' = nCalls + 1
    /\ frame' = "generate_mesh"
    /\ calls' = <<"extract_features">>
    /\ \/ /\ files' = [f \in FilesOfStep("extract_features", geom) |->
                            WrittenBy("extract_features")] @@ files
          /\ err' = "none"
          /\ pc' = "gm_write_settings"
       \/ /\ Raise(ErrorOf("extract_features"))
          /\ UNCHANGED files
    /\ UNCHANGED <<attrs, geom, snappy_dict, d, handle, opens, updates, mutated, nMut>>

\* variant: run_tool follows write_settings directly, write_snappy_dict is left out
write_settings_then_run ==
    /\ pc = "gm_write_settings"
    /\ calls' = Append(calls, "write_settings")
    /\ \/ /\ files' = [f \in FilesOfStep("write_settings", geom) |->
                            WrittenBy("write_settings")] @@ files
          /\ pc' = "gm_run_tool"
          /\ UNCHANGED err
       \/ /\ Raise(ErrorOf("write_settings"))
          /\ UNCHANGED files
    /\ UNCHANGED <<attrs, geom, frame, snappy_dict, d, handle, opens, updates, mutated,
                   nMut, nCalls>>

\* variant: a failure of write_settings is followed by a cleanup of the case directory
write_settings_with_cleanup ==
    /\ pc = "gm_write_settings"
    /\ calls' = Append(calls, "write_settings")
    /\ \/ /\ files' = [f \in FilesOfStep("write_settings", geom) |->
                            WrittenBy("write_settings")] @@ files
          /\ pc' = "gm_write_snappy_dict"
          /\ UNCHANGED err
       \/ /\ Raise(ErrorOf("write_settings"))
          /\ files' = EmptyDict
    /\ UNCHANGED <<attrs, geom, frame, snappy_dict, d, handle, opens, updates, mutated,
                   nMut, nCalls>>

\* self.geom.meshSettings.write_settings(self.case)
write_settings ==
    /\ pc = "gm_write_settings"
    /\ calls' = Append(calls, "write_settings")
    /\ \/ /\ files' = [f \in FilesOfStep("write_settings", geom) |->
                            WrittenBy("write_settings")] @@ files
          /\ pc' = "gm_write_snappy_dict"
          /\ UNCHANGED err
       \/ /\ Raise(ErrorOf("write_settings"))
          /\ UNCHANGED files
    /\ UNCHANGED <<attrs, geom, frame, snappy_dict, d, handle, opens, updates, mutated,
                   nMut, nCalls>>

\* variant: the levels are taken off self.distanceLevels while the list is built
build_snappy_dict_consuming ==
    /\ \/ /\ pc = "gm_write_snappy_dict"
          /\ calls' = Append(calls, "write_snappy_dict")
          /\ UNCHANGED <<frame, nCalls>>
       \/ /\ pc = "idle"
          /\ nCalls < MaxCalls
          /\ nCalls' = nCalls + 1
          /\ frame' = "write_snappy_dict"
          /\ calls' = <<"write_snappy_dict">>
    /\ opens' = 0
    /\ updates' = 0
    /\ IF levelsRaises(attrs)
       THEN /\ Raise("IndexError")
            /\ UNCHANGED <<snappy_dict, mutated, attrs>>
       ELSE /\ snappy_dict' = RenderDict(attrs, geom)
            /\ attrs' = setattr(attrs, "distanceLevels",
                                SubSeq(attrs["distanceLevels"],
                                       Len(attrs["distanceRefinements"]) + 1,
                                       Len(attrs["distanceLevels"])))
            /\ mutated' = FALSE
            /\ err' = "none"
            /\ pc' = "wsd_enter"
    /\ UNCHANGED <<geom, files, d, handle, nMut>>

\* write_snappy_dict, the dict display: called from generate_mesh or directly
build_snappy_dict ==
    /\ \/ /\ pc = "gm_write_snappy_dict"
          /\ calls' = Append(calls, "write_snappy_dict")
          /\ UNCHANGED <<frame, nCalls>>
       \/ /\ pc = "idle"
          /\ nCalls < MaxCalls
          /\ nCalls' = nCalls + 1
          /\ frame' = "write_snappy_dict"
          /\ calls' = <<"write_snappy_dict">>
    /\ opens' = 0
    /\ updates' = 0
    /\ IF levelsRaises(attrs)
       THEN /\ Raise("IndexError")
            /\ UNCHANGED <<snappy_dict, mutated>>
       ELSE /\ snappy_dict' = RenderDict(attrs, geom)
            /\ mutated' = FALSE
            /\ err' = "none"
            /\ pc' = "wsd_enter"
    /\ UNCHANGED <<attrs, geom, files, d, handle, nMut>>

\* with self.case.mutable_data_file(FileName.SNAPPY_HEX_MESH) as d: entering the block
\* acquires the file and yields its present content
mutable_data_file_enter ==
    /\ pc = "wsd_enter"
    /\ \/ /\ handle' = "open"
          /\ opens' = opens + 1
          /\ d' = IF SNAPPY_HEX_MESH \in DOMAIN files THEN files[SNAPPY_HEX_MESH]
                  ELSE EmptyDict
          /\ pc' = "wsd_update"
          /\ UNCHANGED err
       \/ /\ Raise("mutable_data_file error")
          /\ UNCHANGED <<handle, opens, d>>
    /\ UNCHANGED <<attrs, geom, frame, calls, files, snappy_dict, updates, mutated,
                   nMut, nCalls>>

\* d.update(snappy_dict), inside the with block: an exception leaves through the block's exit
update_snappy_dict ==
    /\ pc = "wsd_update"
    /\ updates' = updates + 1
    /\ \/ /\ d' = update(d, snappy_dict)
          /\ UNCHANGED err
       \/ /\ err' = "update error"
          /\ UNCHANGED d
    /\ pc' = "wsd_exit"
    /\ UNCHANGED <<attrs, geom, frame, calls, files, snappy_dict, handle, opens, mutated,
                   nMut, nCalls>>

\* what leaving the scope of mutable_data_file does to the handle
ReleasedHandle(h) == "closed"

\* variant: open, update, close in sequence without a with block: an exception of the
\* update skips the close
mutable_data_file_exit_unscoped ==
    /\ pc = "wsd_exit"
    /\ d' = EmptyDict
    /\ IF err = "none"
       THEN /\ handle' = ReleasedHandle(handle)
            /\ files' = (SNAPPY_HEX_MESH :> d) @@ files
            /\ pc' = IF frame = "generate_mesh" THEN "gm_run_tool" ELSE "idle"
       ELSE /\ pc' = "idle"
            /\ UNCHANGED <<files, handle>>
    /\ UNCHANGED <<attrs, geom, frame, err, calls, snappy_dict, opens, updates, mutated,
                   nMut, nCalls>>

\* leaving the with block, normally or by exception: the file is released; on the normal
\* path the mapping is persisted and control goes on after the block
mutable_data_file_exit ==
    /\ pc = "wsd_exit"
    /\ handle' = ReleasedHandle(handle)
    /\ d' = EmptyDict
    /\ IF err = "none"
       THEN /\ files' = (SNAPPY_HEX_MESH :> d) @@ files
            /\ pc' = IF frame = "generate_mesh" THEN "gm_run_tool" ELSE "idle"
       ELSE /\ pc' = "idle"
            /\ UNCHANGED files
    /\ UNCHANGED <<attrs, geom, frame, err, calls, snappy_dict, opens, updates, mutated,
                   nMut, nCalls>>

\* self.case.run_tool('snappyHexMesh')
run_tool ==
    /\ pc = "gm_run_tool"
    /\ calls' = Append(calls, "run_tool")
    /\ \/ /\ pc' = "idle"
          /\ UNCHANGED err
       \/ Raise(ErrorOf("run_tool"))
    /\ UNCHANGED <<attrs, geom, frame, files, snappy_dict, d, handle, opens, updates,
                   mutated, nMut, nCalls>>

-----------------------------------------------------------------------------

Init ==
    /\ geom \in Geometries
    /\ \E surfaceRefinement \in IntValues : attrs = SnappyHexMesh_init(surfaceRefinement)
    /\ pc = "idle"
    /\ frame = "none"
    /\ err = "none"
    /\ calls = << >>
    /\ files = EmptyDict
    /\ snappy_dict = EmptyDict
    /\ d = EmptyDict
    /\ handle = "closed"
    /\ opens = 0
    /\ updates = 0
    /\ mutated = FALSE
    /\ nMut = 0
    /\ nCalls = 0

Next ==
    \/ \E name \in Fields : \E v \in ValuesOf(name) : SetField(name, v)
    \/ extract_features
    \/ write_settings
    \/ build_snappy_dict
    \/ mutable_data_file_enter
    \/ update_snappy_dict
    \/ mutable_data_file_exit
    \/ run_tool

Spec == Init /\ [][Next]_vars

-----------------------------------------------------------------------------
(* Vocabulary of the properties *)

GmOrder == <<"extract_features", "write_settings", "write_snappy_dict", "run_tool">>

IsPrefix(s, t) == Len(s) <= Len(t) /\ s = SubSeq(t, 1, Len(s))

\* a mapping has been rendered and no field was assigned since
RenderedCurrent == DOMAIN snappy_dict # {} /\ ~mutated

\* the step just taken rendered (or tried to render) the mapping
BuildStep == calls' # calls /\ calls'[Len(calls')] = "write_snappy_dict"

Regions == snappy_dict.castellatedMeshControls.refinementRegions[geom.filename]

-----------------------------------------------------------------------------
(* C1: every run of generate_mesh calls extract_features, write_settings,  *)
(* write_snappy_dict and run_tool in this order, each at most once and, on *)
(* a run that returns normally, exactly once; when run_tool is invoked the *)
(* feature file, the mesh-quality dictionary and the snappyHexMesh         *)
(* dictionary have been written by the three steps before it.              *)
C1_CallOrder ==
    frame = "generate_mesh" =>
        /\ IsPrefix(calls, GmOrder)
        /\ (pc = "idle" /\ err = "none") => calls = GmOrder
        /\ (pc = "gm_run_tool" \/ (calls # << >> /\ calls[Len(calls)] = "run_tool")) =>
              /\ Len(calls) >= 3
              /\ SubSeq(calls, 1, 3) = SubSeq(GmOrder, 1, 3)
              /\ \A i \in 1..3 : FilesOfStep(GmOrder[i], geom) \subseteq DOMAIN files
              /\ files[SNAPPY_HEX_MESH] = snappy_dict

C1_Witness ==
    /\ frame = "generate_mesh"
    /\ pc = "idle"
    /\ err = "none"
    /\ calls = GmOrder

-----------------------------------------------------------------------------
(* C2: when step k of generate_mesh fails, the caller receives the error   *)
(* of that step's collaborator as raised, no step after k has been called  *)
(* (run_tool is called only when steps 1-3 succeeded), and the files the   *)
(* steps before k wrote are still in the case directory as written.        *)
C2_FailurePropagates ==
    (frame = "generate_mesh" /\ pc = "idle" /\ err # "none") =>
        LET k == Len(calls)
            step == calls[k]
        IN  /\ k \in 1..4
            /\ IsPrefix(calls, GmOrder)
            /\ IF step = "write_snappy_dict" THEN err \in WriteErrors
               ELSE err = ErrorOf(step)
            /\ \A i \in 1..(k - 1) :
                  \A f \in FilesOfStep(calls[i], geom) :
                      /\ f \in DOMAIN files
                      /\ files[f] = IF f = SNAPPY_HEX_MESH THEN snappy_dict
                                    ELSE WrittenBy(calls[i])

C2_Witness ==
    /\ frame = "generate_mesh"
    /\ pc = "idle"
    /\ err = ErrorOf("write_settings")
    /\ calls = <<"extract_features", "write_settings">>
    /\ eMeshPath(geom.name) \in DOMAIN files

-----------------------------------------------------------------------------
(* C3: every field of the documented enumeration that has an entry in the  *)
(* rendered mapping, maxFaceThicknessRatio included, shows in that entry   *)
(* the value the caller assigned last.                                     *)
SpecEntries ==
    LET c == snappy_dict.castellatedMeshControls
        sn == snappy_dict.snapControls
        al == snappy_dict.addLayersControls
    IN  [castellate |-> snappy_dict.castellatedMesh,
         snap |-> snappy_dict.snap,
         addLayers |-> snappy_dict.addLayers,
         maxLocalCells |-> c.maxLocalCells,
         maxGlobalCells |-> c.maxGlobalCells,
         minRefinementCells |-> c.minRefinementCells,
         maxLoadUnbalance |-> c.maxLoadUnbalance,
         nCellsBetweenLevels |-> c.nCellsBetweenLevels,
         refinementSurfaceMin |-> c.refinementSurfaces[geom.filename].level[1],
         refinementSurfaceMax |-> c.refinementSurfaces[geom.filename].level[2],
         resolveFeatureAngle |-> c.resolveFeatureAngle,
         locationToKeep |-> c.locationInMesh,
         allowFreeStandingFaces |-> c.allowFreeStandingZoneFaces,
         nSmoothPatch |-> sn.nSmoothPatch,
         snapTolerance |-> sn.tolerance,
         nSolveIter |-> sn.nSolveIter,
         nRelaxIter |-> al.nRelaxIter,
         nFeatureSnapIter |-> sn.nFeatureSnapIter,
         implicitFeatureSnap |-> sn.implicitFeatureSnap,
         explicitFeatureSnap |-> sn.explicitFeatureSnap,
         multiRegionFeatureSnap |-> sn.multiRegionFeatureSnap,
         relativeSizes |-> al.relativeSizes,
         nSurfaceLayers |-> al.layers[geom.filename].nSurfaceLayers,
         expansionRatio |-> al.expansionRatio,
         finalLayerThickness |-> al.finalLayerThickness,
         minThickness |-> al.minThickness,
         nGrow |-> al.nGrow,
         featureAngle |-> al.featureAngle,
         slipFeatureAngle |-> al.slipFeatureAngle,
         nSmoothSurfaceNormals |-> al.nSmoothSurfaceNormals,
         nSmoothNormals |-> al.nSmoothNormals,
         nSmoothThickness |-> al.nSmoothThickness,
         maxFaceThicknessRatio |-> al.maxFaceThicknessRatio,
         maxThicknessToMedialRatio |-> al.maxThicknessToMedialRatio,
         minMedianAxisAngle |-> al.minMedianAxisAngle,
         nBufferCellsNoExtrude |-> al.nBufferCellsNoExtrude,
         nLayerIter |-> al.nLayerIter,
         mergeTolerance |-> snappy_dict.mergeTolerance]

C3_MutationReflected ==
    RenderedCurrent =>
        \A f \in DOMAIN SpecEntries \cap DOMAIN attrs : SpecEntries[f] = attrs[f]

-----------------------------------------------------------------------------
(* C4: for distanceRefinements and distanceLevels of equal length, the     *)
(* rendered refinementRegions entry of the geometry file has mode          *)
(* 'distance' and a levels list of that length whose i-th element is the   *)
(* one-element list [(distanceRefinements[i], distanceLevels[i])]; the     *)
(* defaults give [[(0.1, 4)], [(0.2, 3)]].                                 *)
C4_LevelsPairing ==
    LET dr == attrs["distanceRefinements"]
        dl == attrs["distanceLevels"]
    IN  (RenderedCurrent /\ Len(dr) = Len(dl)) =>
            /\ DOMAIN Regions = {"mode", "levels"}
            /\ Regions.mode = "distance"
            /\ Len(Regions.levels) = Len(dr)
            /\ \A i \in 1..Len(dr) : Regions.levels[i] = << <<dr[i], dl[i]>> >>
            /\ (dr = <<Dec(1, -1), Dec(2, -1)>> /\ dl = <<4, 3>>) =>
                  Regions.levels = << << <<Dec(1, -1), 4>> >>, << <<Dec(2, -1), 3>> >> >>

C4_Witness ==
    /\ RenderedCurrent
    /\ attrs["distanceRefinements"] = <<Dec(2, -1), Dec(1, -1)>>
    /\ attrs["distanceLevels"] = <<4, 3>>
    /\ Len(Regions.levels) = 2

-----------------------------------------------------------------------------
(* C5: the rendered geometry section has the single key filename, mapped   *)
(* to {type: 'triSurfaceMesh'}; features is a one-element list whose file  *)
(* is the name followed by .eMesh, enclosed in double quotes, and whose    *)
(* level is the surface refinement; refinementSurfaces, refinementRegions  *)
(* and layers have the single key filename. For sphere.stl / sphere the    *)
(* key is sphere.stl and the file "sphere.eMesh", the file that            *)
(* extract_features leaves under constant/triSurface.                      *)
C5_GeometryKeys ==
    RenderedCurrent =>
        LET c == snappy_dict.castellatedMeshControls
        IN  /\ DOMAIN snappy_dict.geometry = {geom.filename}
            /\ snappy_dict.geometry[geom.filename] = [type |-> "triSurfaceMesh"]
            /\ Len(c.features) = 1
            /\ c.features[1].file = "\"" \o geom.name \o ".eMesh" \o "\""
            /\ c.features[1].level = attrs["surfaceRefinement"]
            /\ DOMAIN c.refinementSurfaces = {geom.filename}
            /\ DOMAIN c.refinementRegions = {geom.filename}
            /\ DOMAIN snappy_dict.addLayersControls.layers = {geom.filename}
            /\ (geom.filename = "sphere.stl" /\ geom.name = "sphere") =>
                  /\ "sphere.stl" \in DOMAIN snappy_dict.geometry
                  /\ c.features[1].file = "\"sphere.eMesh\""
            /\ (frame = "generate_mesh" /\ pc = "gm_run_tool") =>
                  ("constant/triSurface/" \o geom.name \o ".eMesh") \in DOMAIN files

C5_Witness ==
    /\ RenderedCurrent
    /\ frame = "generate_mesh"
    /\ pc = "gm_run_tool"
    /\ geom.name = "sphere"
    /\ attrs["surfaceRefinement"] = 7
    /\ snappy_dict.castellatedMeshControls.features[1].level = 7

-----------------------------------------------------------------------------
(* C6: rendering reads the parameter set without changing it: no step of   *)
(* write_snappy_dict or generate_mesh changes a field or the geometry's    *)
(* filename and name, and rendering again with no assignment since the     *)
(* last rendering produces the same mapping.                               *)
C6_RenderIdempotentReadOnly ==
    [][/\ nMut' = nMut => (attrs' = attrs /\ geom' = geom)
       /\ (BuildStep /\ RenderedCurrent /\ pc' = "wsd_enter") =>
              snappy_dict' = snappy_dict]_vars

C6_Witness ==
    /\ nCalls = 2
    /\ pc = "wsd_enter"
    /\ nMut = 1
    /\ SNAPPY_HEX_MESH \in DOMAIN files
    /\ files[SNAPPY_HEX_MESH] = snappy_dict
    /\ snappy_dict.addLayersControls.layers[geom.filename].nSurfaceLayers = 7

-----------------------------------------------------------------------------
(* C7: rendered from a freshly constructed object with no field assigned,  *)
(* addLayersControls.nRelaxIter is 3 (not 5), the refinementSurfaces level *)
(* of the geometry file is [5, 6], and castellatedMesh, snap and addLayers *)
(* are true.                                                               *)
C7_Defaults ==
    (nMut = 0 /\ DOMAIN snappy_dict # {}) =>
        /\ snappy_dict.addLayersControls.nRelaxIter = 3
        /\ snappy_dict.addLayersControls.nRelaxIter # 5
        /\ snappy_dict.castellatedMeshControls.refinementSurfaces[geom.filename].level
              = <<5, 6>>
        /\ snappy_dict.castellatedMesh = TRUE
        /\ snappy_dict.snap = TRUE
        /\ snappy_dict.addLayers = TRUE

C7_Witness ==
    /\ nMut = 0
    /\ pc = "wsd_enter"
    /\ snappy_dict.addLayersControls.nRelaxIter = 3

-----------------------------------------------------------------------------
(* C8, as stated: whenever distanceRefinements and distanceLevels differ   *)
(* in length, whichever is the longer, rendering completes without         *)
(* raising and goes on to write the configuration file.                    *)
C8_MismatchNeverRaises ==
    [][(BuildStep /\ Len(attrs["distanceRefinements"]) # Len(attrs["distanceLevels"])) =>
            (err' = "none" /\ pc' = "wsd_enter")]_vars

(* C8, amended: when distanceLevels is the longer, rendering completes     *)
(* without raising, the levels list has one pair per distanceRefinements   *)
(* entry (the surplus levels are dropped) and the write of the file goes   *)
(* ahead; when distanceRefinements is the longer, rendering raises         *)
(* IndexError before the file is opened and nothing is written.            *)
C8_MismatchAmended ==
    [][BuildStep =>
        LET dr == attrs["distanceRefinements"]
            dl == attrs["distanceLevels"]
            lv == snappy_dict'.castellatedMeshControls.refinementRegions[geom.filename].levels
        IN  /\ Len(dl) > Len(dr) =>
                /\ err' = "none"
                /\ pc' = "wsd_enter"
                /\ Len(lv) = Len(dr)
                /\ \A i \in 1..Len(dr) : lv[i] = << <<dr[i], dl[i]>> >>
            /\ Len(dr) > Len(dl) =>
                /\ err' = "IndexError"
                /\ pc' = "idle"
                /\ files' = files
                /\ handle' = "closed"
                /\ opens' = 0]_vars

C8_Witness ==
    /\ frame = "write_snappy_dict"
    /\ pc = "idle"
    /\ err = "none"
    /\ ~mutated
    /\ Len(attrs["distanceLevels"]) > Len(attrs["distanceRefinements"])
    /\ Len(Regions.levels) = Len(attrs["distanceRefinements"])
    /\ files[SNAPPY_HEX_MESH] = snappy_dict

-----------------------------------------------------------------------------
(* C9: write_snappy_dict acquires the configuration file at most once and  *)
(* updates it at most once, exactly once each on a call that returns       *)
(* normally, and the handle is held only inside the with block: after      *)
(* write_snappy_dict has returned or raised, also when the update raised,  *)
(* the handle is released.                                                 *)
C9_HandleReleased ==
    /\ pc \notin {"wsd_update", "wsd_exit"} => handle = "closed"
    /\ handle = "open" => opens = 1
    /\ opens <= 1
    /\ updates <= opens
    /\ (frame = "write_snappy_dict" /\ pc = "idle" /\ err = "none") =>
          (opens = 1 /\ updates = 1)
    /\ pc = "gm_run_tool" => (opens = 1 /\ updates = 1)

C9_Witness ==
    /\ pc = "idle"
    /\ err = "update error"
    /\ opens = 1
    /\ updates = 1
    /\ handle = "closed"

-----------------------------------------------------------------------------
(* C10: in every rendered mapping snapControls.nRelaxIter and              *)
(* addLayersControls.nRelaxIter are equal, both being the value of the     *)
(* nRelaxIter field at the time of rendering, whatever fields were         *)
(* assigned before.                                                        *)
C10_RelaxIterShared ==
    DOMAIN snappy_dict # {} =>
        /\ snappy_dict.snapControls.nRelaxIter = snappy_dict.addLayersControls.nRelaxIter
        /\ ~mutated => snappy_dict.snapControls.nRelaxIter = attrs["nRelaxIter"]

C10_Witness ==
    /\ RenderedCurrent
    /\ attrs["nRelaxIter"] = 7
    /\ snappy_dict.snapControls.nRelaxIter = 7
    /\ snappy_dict.addLayersControls.nRelaxIter = 7

====
